---------------------------- MODULE Spec2Model ----------------------------
(***************************************************************************)
(* A model of the UMA protocol core of the Lightspark Go SDK               *)
(* (src/uma/uma.go).                                                       *)
(*                                                                         *)
(* Strings are sequences of atoms.  An atom stands for a fixed non-empty   *)
(* piece of text; the separator characters the code looks at ("/", "@",   *)
(* "|", the sign and the decimal digits) are atoms of their own, and no    *)
(* other atom contains one of them.  Splitting, joining, prefix tests and  *)
(* decimal conversion are computed on these sequences the way the Go       *)
(* library computes them on bytes.                                         *)
(***************************************************************************)
EXTENDS Integers, Sequences, FiniteSets, TLC

VARIABLES
    cache,      \* the PublicKeyCache shared by all FetchPublicKeyForVasp calls
    calls,      \* per call of FetchPublicKeyForVasp: its position and locals
    lastDone,   \* per domain, the call that returned (or panicked) last
    args,       \* the arguments of the pure operation under check
    ret         \* what the operation returned (and the effects it had)

vars == <<cache, calls, lastDone, args, ret>>

(***************************************************************************)
(* Bounds of the model.                                                    *)
(***************************************************************************)
\* the longest path, in segments, of a request URL
MaxSegs == 5

\* the number of FetchPublicKeyForVasp calls
NumCalls == 2

\* the number of key pairs a VASP publishes over time
NumKeyVersions == 2

(***************************************************************************)
(* Go values.                                                              *)
(***************************************************************************)
\* a nil pointer
Nil == [isNil |-> TRUE]

\* a nil error
NoErr == "nil"

\* the empty string
Empty == <<>>

(***************************************************************************)
(* String helpers of the Go library, computed on atom sequences.           *)
(***************************************************************************)
\* the string made of one atom
Str(a) == <<a>>

RECURSIVE Join(_, _)
\* strings.Join(parts, sep)
Join(parts, sep) ==
    IF Len(parts) = 0 THEN Empty
    ELSE IF Len(parts) = 1 THEN parts[1]
    ELSE parts[1] \o sep \o Join(Tail(parts), sep)

RECURSIVE SplitFrom(_, _, _, _)
\* the segments of s from position i on, cur being the segment read so far
SplitFrom(s, sep, i, cur) ==
    IF i > Len(s) THEN <<cur>>
    ELSE IF s[i] = sep THEN <<cur>> \o SplitFrom(s, sep, i + 1, Empty)
    ELSE SplitFrom(s, sep, i + 1, Append(cur, s[i]))

\* strings.Split(s, sep) for a one-character separator
Split(s, sep) == SplitFrom(s, sep, 1, Empty)

\* strings.HasPrefix(s, prefix)
HasPrefix(s, prefix) ==
    /\ Len(s) >= Len(prefix)
    /\ SubSeq(s, 1, Len(prefix)) = prefix

\* strings.ToLower on one atom: the atoms with upper-case letters in the model
LowerAtom(a) ==
    CASE a = "TRUE" -> "true"
      [] a = "True" -> "true"
      [] a = "FALSE" -> "false"
      [] OTHER -> a

\* strings.ToLower(s)
ToLower(s) == [i \in 1..Len(s) |-> LowerAtom(s[i])]

(***************************************************************************)
(* Decimal conversion (strconv).  A signed 64-bit value is kept as its     *)
(* canonical decimal numeral [neg, mag]: mag has no leading zero (zero is  *)
(* <<"0">>) and zero is never negative.                                    *)
(***************************************************************************)
Digits == {"0", "1", "2", "3", "4", "5", "6", "7", "8", "9"}

DigitVal(c) ==
    CASE c = "0" -> 0 [] c = "1" -> 1 [] c = "2" -> 2 [] c = "3" -> 3
      [] c = "4" -> 4 [] c = "5" -> 5 [] c = "6" -> 6 [] c = "7" -> 7
      [] c = "8" -> 8 [] c = "9" -> 9

DigitChar(n) ==
    CASE n = 0 -> "0" [] n = 1 -> "1" [] n = 2 -> "2" [] n = 3 -> "3"
      [] n = 4 -> "4" [] n = 5 -> "5" [] n = 6 -> "6" [] n = 7 -> "7"
      [] n = 8 -> "8" [] n = 9 -> "9"

\* the digits of math.MaxInt64 = 9223372036854775807
MaxInt64Mag ==
    <<"9", "2", "2", "3", "3", "7", "2", "0", "3", "6",
      "8", "5", "4", "7", "7", "5", "8", "0", "7">>

\* the digits of -math.MinInt64 = 9223372036854775808
MinInt64Mag ==
    <<"9", "2", "2", "3", "3", "7", "2", "0", "3", "6",
      "8", "5", "4", "7", "7", "5", "8", "0", "8">>

RECURSIVE StripZeros(_)
\* a digit string without its leading zeros ("0" for zero)
StripZeros(ds) ==
    IF Len(ds) > 1 /\ ds[1] = "0" THEN StripZeros(Tail(ds)) ELSE ds

RECURSIVE LexLeq(_, _)
\* a <= b for digit strings of the same length
LexLeq(a, b) ==
    IF Len(a) = 0 THEN TRUE
    ELSE IF DigitVal(a[1]) < DigitVal(b[1]) THEN TRUE
    ELSE IF DigitVal(a[1]) > DigitVal(b[1]) THEN FALSE
    ELSE LexLeq(Tail(a), Tail(b))

\* a <= b for digit strings without leading zeros
MagLeq(a, b) ==
    \/ Len(a) < Len(b)
    \/ Len(a) = Len(b) /\ LexLeq(a, b)

RECURSIVE NatDigits(_)
\* the decimal digits of a natural number
NatDigits(n) ==
    IF n < 10 THEN <<DigitChar(n)>>
    ELSE Append(NatDigits(n \div 10), DigitChar(n % 10))

\* the int64 value n, for a small natural number n
Int64(n) == [neg |-> FALSE, mag |-> NatDigits(n)]

\* strconv.FormatInt(v, 10)
FormatInt(v) == (IF v.neg THEN <<"-">> ELSE Empty) \o v.mag

\* strconv.FormatBool(b)
FormatBool(b) == IF b THEN Str("true") ELSE Str("false")

\* strconv.ParseInt(s, 10, 64): [ok, val]
ParseInt(s) ==
    LET signed == Len(s) > 0 /\ s[1] \in {"+", "-"}
        neg    == Len(s) > 0 /\ s[1] = "-"
        body   == IF signed THEN Tail(s) ELSE s
        mag    == StripZeros(body)
    IN  IF Len(body) = 0 \/ \E i \in 1..Len(body) : body[i] \notin Digits
        THEN [ok |-> FALSE, val |-> Nil]
        ELSE IF ~MagLeq(mag, IF neg THEN MinInt64Mag ELSE MaxInt64Mag)
        THEN [ok |-> FALSE, val |-> Nil]
        ELSE [ok |-> TRUE,
              val |-> [neg |-> neg /\ mag # <<"0">>, mag |-> mag]]

\* time.Unix(sec, 0)
TimeUnix(sec) == [sec |-> sec, nsec |-> 0]

(***************************************************************************)
(* URLs (net/url).  A url.URL is kept as its Host, its Path and the        *)
(* url.Values its query string decodes to: a map from keys to the list of  *)
(* values given for the key.                                               *)
(***************************************************************************)
\* url.Values.Get(key): the first value of the key, "" when there is none
Get(query, key) ==
    IF key \in DOMAIN query /\ Len(query[key]) > 0 THEN query[key][1] ELSE Empty

(***************************************************************************)
(* ParseLnurlpRequest                                                      *)
(***************************************************************************)
ErrInvalidTimestamp == "invalid timestamp"
ErrMissingParameter ==
    "missing uma query parameters. vaspDomain, signature, nonce, and timestamp are required"
ErrInvalidRequestPath == "invalid uma request path"

\* ParseLnurlpRequest with the path check reduced to the segment count
ParseLnurlpRequest_CountOnly(url) ==
    LET query      == url.Query
        signature  == Get(query, "signature")
        vaspDomain == Get(query, "vaspDomain")
        nonce      == Get(query, "nonce")
        trStatus   == Get(query, "trStatus")
        timestamp  == Get(query, "timestamp")
        parsed     == ParseInt(timestamp)
        pathParts  == Split(url.Path, "/")
    IN  IF ~parsed.ok
        THEN [req |-> Nil, err |-> ErrInvalidTimestamp]
        ELSE IF vaspDomain = Empty \/ signature = Empty \/ nonce = Empty
                \/ timestamp = Empty
        THEN [req |-> Nil, err |-> ErrMissingParameter]
        ELSE IF Len(pathParts) # 4
        THEN [req |-> Nil, err |-> ErrInvalidRequestPath]
        ELSE [req |-> [VaspDomain      |-> vaspDomain,
                       Signature       |-> signature,
                       ReceiverAddress |-> pathParts[4] \o Str("@") \o url.Host,
                       Nonce           |-> nonce,
                       Timestamp       |-> TimeUnix(parsed.val),
                       TrStatus        |-> ToLower(trStatus) = Str("true")],
              err |-> NoErr]

\* ParseLnurlpRequest taking the receiver's domain from vaspDomain
ParseLnurlpRequest_SenderDomain(url) ==
    LET query      == url.Query
        signature  == Get(query, "signature")
        vaspDomain == Get(query, "vaspDomain")
        nonce      == Get(query, "nonce")
        trStatus   == Get(query, "trStatus")
        timestamp  == Get(query, "timestamp")
        parsed     == ParseInt(timestamp)
        pathParts  == Split(url.Path, "/")
    IN  IF ~parsed.ok
        THEN [req |-> Nil, err |-> ErrInvalidTimestamp]
        ELSE IF vaspDomain = Empty \/ signature = Empty \/ nonce = Empty
                \/ timestamp = Empty
        THEN [req |-> Nil, err |-> ErrMissingParameter]
        ELSE IF Len(pathParts) # 4 \/ pathParts[2] # Str(".well-known")
                \/ pathParts[3] # Str("lnurlp")
        THEN [req |-> Nil, err |-> ErrInvalidRequestPath]
        ELSE [req |-> [VaspDomain      |-> vaspDomain,
                       Signature       |-> signature,
                       ReceiverAddress |-> pathParts[4] \o Str("@") \o vaspDomain,
                       Nonce           |-> nonce,
                       Timestamp       |-> TimeUnix(parsed.val),
                       TrStatus        |-> ToLower(trStatus) = Str("true")],
              err |-> NoErr]

\* ParseLnurlpRequest(url): [req, err]
ParseLnurlpRequest(url) ==
    LET query      == url.Query
        signature  == Get(query, "signature")
        vaspDomain == Get(query, "vaspDomain")
        nonce      == Get(query, "nonce")
        trStatus   == Get(query, "trStatus")
        timestamp  == Get(query, "timestamp")
        parsed     == ParseInt(timestamp)
        pathParts  == Split(url.Path, "/")
    IN  IF ~parsed.ok
        THEN [req |-> Nil, err |-> ErrInvalidTimestamp]
        ELSE IF vaspDomain = Empty \/ signature = Empty \/ nonce = Empty
                \/ timestamp = Empty
        THEN [req |-> Nil, err |-> ErrMissingParameter]
        ELSE IF Len(pathParts) # 4 \/ pathParts[2] # Str(".well-known")
                \/ pathParts[3] # Str("lnurlp")
        THEN [req |-> Nil, err |-> ErrInvalidRequestPath]
        ELSE [req |-> [VaspDomain      |-> vaspDomain,
                       Signature       |-> signature,
                       ReceiverAddress |-> pathParts[4] \o Str("@") \o url.Host,
                       Nonce           |-> nonce,
                       Timestamp       |-> TimeUnix(parsed.val),
                       TrStatus        |-> ToLower(trStatus) = Str("true")],
              err |-> NoErr]


(***************************************************************************)
(* The state every specification starts the unused parts in.               *)
(***************************************************************************)
\* no argument drawn, nothing returned
NoArgs == [none |-> TRUE]

(***************************************************************************)
(* SpecParse: ParseLnurlpRequest applied to request URLs.                  *)
(***************************************************************************)
\* hosts of a request URL; a server-side URL usually has none
Hosts == {Empty, Str("vasp2.com")}

\* what a path segment may be
Segments == {Empty, Str(".well-known"), Str("lnurlp"), Str("alice")}

\* every path of at most MaxSegs segments
Paths ==
    {Join(segs, Str("/")) : segs \in UNION {[1..n -> Segments] : n \in 1..MaxSegs}}

\* the values a query may give for a key: the key left out, or one value
ValuesOf(key) ==
    CASE key = "signature"  -> {Str("3045")}
      [] key = "vaspDomain" -> {Str("vasp1.com")}
      [] key = "nonce"      -> {Empty, Str("42")}
      [] key = "trStatus"   -> {Str("TRUE")}
      [] key = "timestamp"  -> {<<"1", "7">>, <<"1", "x">>, MinInt64Mag}

QueryKeys == {"signature", "vaspDomain", "nonce", "trStatus", "timestamp"}

\* a key left out of the query, or given with one of its values
Given(key) == {<<>>} \cup {<<v>> : v \in ValuesOf(key)}

\* the url.Values holding the keys that are given
QueryOf(given) == [k \in {x \in QueryKeys : given[x] # <<>>} |-> given[k]]

\* the queries of the model: trStatus is always given
Queries ==
    {QueryOf([signature |-> s, vaspDomain |-> d, nonce |-> n,
              trStatus |-> <<Str("TRUE")>>, timestamp |-> t]) :
        s \in Given("signature"), d \in Given("vaspDomain"),
        n \in Given("nonce"), t \in Given("timestamp")}

ParseUrls == [Host : Hosts, Path : Paths, Query : Queries]

InitParse ==
    /\ cache = NoArgs
    /\ calls = NoArgs
    /\ lastDone = NoArgs
    /\ args \in [url : ParseUrls]
    /\ ret = Nil

\* a server hands the request URL to ParseLnurlpRequest
ParseStep ==
    /\ ret = Nil
    /\ ret' = ParseLnurlpRequest(args.url)
    /\ UNCHANGED <<cache, calls, lastDone, args>>

NextParse == ParseStep

SpecParse == InitParse /\ [][NextParse]_vars

(***************************************************************************)
(* SpecFetch: calls of FetchPublicKeyForVasp sharing one PublicKeyCache.   *)
(* A call takes two steps, the two places where it meets the cache: the    *)
(* lookup that starts it, and the rest of the function (HTTP GET, status   *)
(* check, body read, JSON parse, cache put, return, deferred Body.Close),  *)
(* which touches nothing shared before the put.                            *)
(***************************************************************************)
\* the calls of the model
Calls == 1..NumCalls

\* the domains asked for
Domains == {Str("vasp1.com"), <<"localhost:", "8080">>}

\* the PubKeyResponse a VASP publishes: the host's v-th key pair
PubKeyResponse(host, v) ==
    [SigningPubKey |-> <<host, v, "sign">>, EncryptionPubKey |-> <<host, v, "enc">>]

\* a body that json.Unmarshal rejects
Malformed == [malformed |-> TRUE]

\* PublicKeyCache.FetchPublicKeyForVasp(vaspDomain): the entry, or nil
CacheGet(c, vaspDomain) == c[vaspDomain]

\* PublicKeyCache.AddPublicKeyForVasp(vaspDomain, pubKey)
CachePut(c, vaspDomain, pubKey) == [c EXCEPT ![vaspDomain] = pubKey]

\* the URL FetchPublicKeyForVasp asks for
PubKeyUrl(vaspDomain) ==
    LET scheme == IF HasPrefix(vaspDomain, Str("localhost:"))
                  THEN Str("http://") ELSE Str("https://")
    IN  scheme \o vaspDomain \o Str("/.well-known/lnurlpubkey")

\* http.Get failed: there is no response
TransportError == [transport |-> TRUE]

\* what http.Get may return for a domain: a transport error, or a response
\* with a status, a body that reads or not, parses or not, and closes or not
Responses(vaspDomain) ==
    {TransportError}
    \cup {[transport |-> FALSE, StatusCode |-> 404, readOk |-> TRUE,
           body |-> Malformed, closeOk |-> c] : c \in BOOLEAN}
    \cup {[transport |-> FALSE, StatusCode |-> 200, readOk |-> FALSE,
           body |-> Malformed, closeOk |-> c] : c \in BOOLEAN}
    \cup {[transport |-> FALSE, StatusCode |-> 200, readOk |-> TRUE,
           body |-> b, closeOk |-> c] :
            b \in {Malformed} \cup {PubKeyResponse(vaspDomain, v) : v \in 1..NumKeyVersions},
            c \in BOOLEAN}

\* what a call returned: a key and an error
Returned(key, err) == [key |-> key, err |-> err, panicked |-> FALSE]

\* the call did not return: it panicked
Panicked == [key |-> Nil, err |-> NoErr, panicked |-> TRUE]

ErrTransport == "Get: transport error"
ErrInvalidResponse == "invalid response from VASP"
ErrRead == "io.ReadAll: read error"
ErrUnmarshal == "json.Unmarshal: invalid body"

\* a call not yet made
IdleCall ==
    [pc |-> "idle", vaspDomain |-> Empty, publicKey |-> Nil, resp |-> Nil,
     result |-> Nil, fetches |-> <<>>, puts |-> <<>>]

InitFetch ==
    /\ cache = [d \in Domains |-> Nil]
    /\ calls = [c \in Calls |-> IdleCall]
    /\ lastDone = [d \in Domains |-> 0]
    /\ args = NoArgs
    /\ ret = Nil

\* the call starting without asking the cache
Call_NoLookup(c, d) ==
    /\ calls[c].pc = "idle"
    /\ \A o \in Calls : o < c => calls[o].pc # "idle"
    /\ calls' = [calls EXCEPT ![c] = [@ EXCEPT !.vaspDomain = d, !.pc = "fetching"]]
    /\ UNCHANGED <<cache, lastDone, args, ret>>

\* lines 32-36: the call starts, asks the cache, and returns the entry if
\* there is one
Call(c, d) ==
    /\ calls[c].pc = "idle"
    /\ \A o \in Calls : o < c => calls[o].pc # "idle"
    /\ LET publicKey == CacheGet(cache, d)
           started   == [calls[c] EXCEPT !.vaspDomain = d, !.publicKey = publicKey]
       IN  IF publicKey # Nil
           THEN /\ calls' = [calls EXCEPT ![c] =
                               [started EXCEPT !.pc = "done",
                                               !.result = Returned(publicKey, NoErr)]]
                /\ lastDone' = [lastDone EXCEPT ![d] = c]
           ELSE /\ calls' = [calls EXCEPT ![c] = [started EXCEPT !.pc = "fetching"]]
                /\ UNCHANGED lastDone
    /\ UNCHANGED <<cache, args, ret>>

\* the function body without the cache put of line 69
Body_NoPut(resp) ==
    IF resp.transport
    THEN [put |-> FALSE, result |-> Returned(Nil, ErrTransport)]
    ELSE IF resp.StatusCode # 200
    THEN [put |-> FALSE, result |-> Returned(Nil, ErrInvalidResponse)]
    ELSE IF ~resp.readOk
    THEN [put |-> FALSE, result |-> Returned(Nil, ErrRead)]
    ELSE IF resp.body = Malformed
    THEN [put |-> FALSE, result |-> Returned(Nil, ErrUnmarshal)]
    ELSE [put |-> FALSE, result |-> Returned(resp.body, NoErr)]

\* lines 43-70: what the function body returns for what http.Get gave, and
\* whether it puts the parsed key in the cache
Body(resp) ==
    IF resp.transport
    THEN [put |-> FALSE, result |-> Returned(Nil, ErrTransport)]
    ELSE IF resp.StatusCode # 200
    THEN [put |-> FALSE, result |-> Returned(Nil, ErrInvalidResponse)]
    ELSE IF ~resp.readOk
    THEN [put |-> FALSE, result |-> Returned(Nil, ErrRead)]
    ELSE IF resp.body = Malformed
    THEN [put |-> FALSE, result |-> Returned(Nil, ErrUnmarshal)]
    ELSE [put |-> TRUE, result |-> Returned(resp.body, NoErr)]

\* lines 47-52: the deferred Body.Close, registered once there is a
\* response, runs after the body and panics when Close fails
Deferred(resp, result) ==
    IF resp.transport \/ resp.closeOk THEN result ELSE Panicked

\* lines 38-70: the GET and the rest of the function
Fetch(c) ==
    /\ calls[c].pc = "fetching"
    /\ \E resp \in Responses(calls[c].vaspDomain) :
        LET d == calls[c].vaspDomain
            b == Body(resp)
        IN  /\ cache' = IF b.put THEN CachePut(cache, d, b.result.key) ELSE cache
            /\ calls' = [calls EXCEPT ![c] =
                           [@ EXCEPT !.pc = "done",
                                     !.resp = resp,
                                     !.fetches = Append(@, PubKeyUrl(d)),
                                     !.puts = IF b.put THEN Append(@, d) ELSE @,
                                     !.result = Deferred(resp, b.result)]]
            /\ lastDone' = [lastDone EXCEPT ![d] = c]
    /\ UNCHANGED <<args, ret>>

NextFetch ==
    \/ \E c \in Calls, d \in Domains : Call(c, d)
    \/ \E c \in Calls : Fetch(c)

SpecFetch == InitFetch /\ [][NextFetch]_vars

\* the specification of the core's one stateful operation
Spec == SpecFetch

(***************************************************************************)
(* 64-bit integer arithmetic.  An int64 amount is kept as its 8 bytes,     *)
(* least significant first, in two's complement; Go's * on int64 keeps the *)
(* low 64 bits of the product.                                             *)
(***************************************************************************)
\* the width of an int64 in bytes
Int64Bytes == 8

RECURSIVE BytesOf(_, _)
\* the n low bytes of a natural number
BytesOf(v, n) == IF n = 0 THEN <<>> ELSE <<v % 256>> \o BytesOf(v \div 256, n - 1)

\* the int64 of a small natural number
Amount(v) == BytesOf(v, Int64Bytes)

\* the int64 2^k, for k < 63
AmountPow2(k) ==
    [i \in 1..Int64Bytes |-> IF i = (k \div 8) + 1 THEN 2 ^ (k % 8) ELSE 0]

\* the int64 -1
AmountMinusOne == [i \in 1..Int64Bytes |-> 255]

\* math.MaxInt64
AmountMax == [i \in 1..Int64Bytes |-> IF i = Int64Bytes THEN 127 ELSE 255]

\* the two's complement number x widened to n bytes
SignExtend(x, n) ==
    [i \in 1..n |-> IF i <= Len(x) THEN x[i]
                    ELSE IF x[Len(x)] >= 128 THEN 255 ELSE 0]

RECURSIVE ColumnSum(_, _, _, _)
\* the sum of the byte products x[i] * y[k - i] of column k, from i on
ColumnSum(x, y, k, i) ==
    IF i > k THEN 0
    ELSE x[i + 1] * y[k - i + 1] + ColumnSum(x, y, k, i + 1)

RECURSIVE MulFrom(_, _, _, _)
\* the bytes of x * y from column k on, carry coming in
MulFrom(x, y, k, carry) ==
    IF k = Len(x) THEN <<>>
    ELSE LET col == carry + ColumnSum(x, y, k, 0)
         IN  <<col % 256>> \o MulFrom(x, y, k + 1, col \div 256)

\* x * y on numbers of the same width: the low bytes of the product
Mul(x, y) == MulFrom(x, y, 0, 0)

(***************************************************************************)
(* GetPayReqResponse                                                       *)
(***************************************************************************)
\* json.Marshal(query.PayerData)
JsonPayerData(payerData) ==
    <<"{", "\"identifier\":">> \o payerData.Identifier \o <<"}">>

ErrInvoiceCreation == "CreateLnurlInvoice: error"

\* LnurlInvoiceCreator.CreateLnurlInvoice: the invoice or the error of the
\* creator handed in
CreateLnurlInvoice(creator, nodeId, amountMsats, metadata, expirySecs) ==
    IF creator.fails
    THEN [invoice |-> Nil, err |-> ErrInvoiceCreation]
    ELSE [invoice |-> [Data |-> [EncodedPaymentRequest |->
                                    <<"lnbc", creator.serial>>]],
          err |-> NoErr]

\* GetPayReqResponse asking the invoice creator a second time when the
\* first creation fails
GetPayReqResponse_Retry(query, invoiceCreator, nodeId, metadata, currencyCode, conversionRate, expirySecs, receiverChannelUtxos, utxoCallback) ==
    LET msatsAmount      == Mul(query.Amount, conversionRate)
        encodedPayerData == JsonPayerData(query.PayerData)
        invoiceMetadata  == metadata \o Str("{") \o encodedPayerData \o Str("}")
        created == CreateLnurlInvoice(invoiceCreator, nodeId, msatsAmount,
                                      invoiceMetadata, expirySecs)
        call    == [nodeId |-> nodeId, amountMsats |-> msatsAmount,
                    metadata |-> invoiceMetadata, expirySecs |-> expirySecs]
    IN  IF created.err # NoErr
        THEN [resp |-> Nil, err |-> created.err, created |-> <<call, call>>]
        ELSE [resp |-> [EncodedInvoice |-> created.invoice.Data.EncodedPaymentRequest,
                        Routes |-> <<>>,
                        Compliance |-> [Utxos |-> receiverChannelUtxos,
                                        UtxoCallback |-> utxoCallback],
                        PaymentInfo |-> [CurrencyCode |-> currencyCode,
                                         Multiplier |-> conversionRate]],
              err |-> NoErr,
              created |-> <<call>>]

\* GetPayReqResponse: [resp, err, created], created being the
\* CreateLnurlInvoice calls made
GetPayReqResponse(query, invoiceCreator, nodeId, metadata, currencyCode, conversionRate, expirySecs, receiverChannelUtxos, utxoCallback) ==
    LET msatsAmount      == Mul(query.Amount, conversionRate)
        encodedPayerData == JsonPayerData(query.PayerData)
        invoiceMetadata  == metadata \o Str("{") \o encodedPayerData \o Str("}")
        created == CreateLnurlInvoice(invoiceCreator, nodeId, msatsAmount,
                                      invoiceMetadata, expirySecs)
        call    == [nodeId |-> nodeId, amountMsats |-> msatsAmount,
                    metadata |-> invoiceMetadata, expirySecs |-> expirySecs]
    IN  IF created.err # NoErr
        THEN [resp |-> Nil, err |-> created.err, created |-> <<call>>]
        ELSE [resp |-> [EncodedInvoice |-> created.invoice.Data.EncodedPaymentRequest,
                        Routes |-> <<>>,
                        Compliance |-> [Utxos |-> receiverChannelUtxos,
                                        UtxoCallback |-> utxoCallback],
                        PaymentInfo |-> [CurrencyCode |-> currencyCode,
                                         Multiplier |-> conversionRate]],
              err |-> NoErr,
              created |-> <<call>>]

(***************************************************************************)
(* SpecPayReqResponse: GetPayReqResponse applied to pay requests.          *)
(***************************************************************************)
\* amounts of a pay request, in the smallest unit of the currency
Amounts ==
    {Amount(0), Amount(1), Amount(1000), Amount(250000), AmountPow2(32),
     AmountPow2(62), AmountMax, AmountMinusOne}

\* conversion rates, in millisatoshis per unit
ConversionRates ==
    {Amount(1), Amount(1000), Amount(34150), AmountPow2(32), AmountPow2(40),
     AmountMax, AmountMinusOne}

\* invoice creators: one that issues invoices, one that fails
InvoiceCreators == {[fails |-> FALSE, serial |-> "1"], [fails |-> TRUE, serial |-> "0"]}

PayReqResponseArgs ==
    [query : [Amount : Amounts,
              PayerData : {[Identifier |-> <<"$alice", "@", "vasp1.com">>]}],
     invoiceCreator : InvoiceCreators,
     nodeId : {Str("node-1")},
     metadata : {Str("[[\"text/plain\",\"Pay\"]]")},
     currencyCode : {Str("USD")},
     conversionRate : ConversionRates,
     expirySecs : {600},
     receiverChannelUtxos : {<<Str("utxo1")>>},
     utxoCallback : {Str("/api/uma/utxoCallback")}]

InitPayReqResponse ==
    /\ cache = NoArgs
    /\ calls = NoArgs
    /\ lastDone = NoArgs
    /\ args \in PayReqResponseArgs
    /\ ret = Nil

\* the receiving VASP answers the pay request
PayReqResponseStep ==
    /\ ret = Nil
    /\ ret' = GetPayReqResponse(args.query, args.invoiceCreator, args.nodeId,
                                args.metadata, args.currencyCode,
                                args.conversionRate, args.expirySecs,
                                args.receiverChannelUtxos, args.utxoCallback)
    /\ UNCHANGED <<cache, calls, lastDone, args>>

NextPayReqResponse == PayReqResponseStep

SpecPayReqResponse == InitPayReqResponse /\ [][NextPayReqResponse]_vars

(***************************************************************************)
(* Randomness, signatures and encryption.  Byte strings are atom sequences *)
(* like text.  SHA-256, ECDSA and ECIES are kept symbolic: a digest, a     *)
(* signature and a ciphertext are the terms they were computed from, so    *)
(* two of them are equal only if they were computed from equal inputs.     *)
(* A key is [id, valid]: valid says whether the bytes decode to a key, and *)
(* the public key of a private key carries the same id.                    *)
(***************************************************************************)
\* *string pointing at s
Ptr(s) == [val |-> s]

ErrRand == "rand: read error"
ErrInvalidPrivateKey == "invalid private key"
ErrHex == "encoding/hex: invalid byte"
ErrInvalidPublicKey == "invalid public key"
ErrMalformedSignature == "malformed signature"
ErrInvalidSignature == "invalid uma signature"

\* GenerateNonce(): [nonce, err]
GenerateNonce(rand) ==
    IF ~rand.ok THEN [nonce |-> Nil, err |-> ErrRand]
    ELSE [nonce |-> Ptr(NatDigits(rand.n)), err |-> NoErr]

\* sha256.Sum256(payload)
Sha256(payload) == <<"sha256(">> \o payload \o <<")">>

\* hex.EncodeToString(bytes)
HexEncode(bytes) == <<"hex:">> \o bytes

\* hex.DecodeString(s): [ok, bytes]
HexDecode(s) ==
    IF Len(s) > 0 /\ s[1] = "hex:" THEN [ok |-> TRUE, bytes |-> Tail(s)]
    ELSE [ok |-> FALSE, bytes |-> Empty]

\* the DER bytes of the ECDSA signature of digest under the key, k being
\* the randomness of the signature
DerSignature(keyId, digest, k) == <<"der:", keyId>> \o digest \o <<k>>

\* ecdsa.ParseDERSignature(bytes): [ok, keyId, digest]
ParseDERSignature(bytes) ==
    IF Len(bytes) >= 3 /\ bytes[1] = "der:"
    THEN [ok |-> TRUE, keyId |-> bytes[2],
          digest |-> SubSeq(bytes, 3, Len(bytes) - 1)]
    ELSE [ok |-> FALSE, keyId |-> "", digest |-> Empty]

\* signPayload(payload, privateKeyBytes): [signature, err]
signPayload(payload, privateKeyBytes, rand) ==
    IF ~privateKeyBytes.valid
    THEN [signature |-> Nil, err |-> ErrInvalidPrivateKey]
    ELSE IF ~rand.ok
    THEN [signature |-> Nil, err |-> ErrRand]
    ELSE [signature |-> Ptr(HexEncode(DerSignature(privateKeyBytes.id,
                                                   Sha256(payload), rand.k))),
          err |-> NoErr]

\* verifySignature(hashedPayload, signature, otherVaspPubKey): the error
verifySignature(hashedPayload, signature, otherVaspPubKey) ==
    LET decoded == HexDecode(signature)
        sig     == ParseDERSignature(decoded.bytes)
    IN  IF ~decoded.ok THEN ErrHex
        ELSE IF ~otherVaspPubKey.valid THEN ErrInvalidPublicKey
        ELSE IF ~sig.ok THEN ErrMalformedSignature
        ELSE IF ~(sig.keyId = otherVaspPubKey.id /\ sig.digest = hashedPayload)
        THEN ErrInvalidSignature
        ELSE NoErr

\* eciesgo.Encrypt(pubKey, plaintext): the ciphertext bytes, eph being the
\* ephemeral key drawn for it
EciesEncrypt(pubKey, plaintext, eph) ==
    <<"ecies:", pubKey.id, eph>> \o plaintext

\* encryptTrInfo(trInfo, receiverEncryptionPubKey): [trInfo, err]
encryptTrInfo(trInfo, receiverEncryptionPubKey, rand) ==
    IF ~receiverEncryptionPubKey.valid
    THEN [trInfo |-> Nil, err |-> ErrInvalidPublicKey]
    ELSE IF ~rand.ok
    THEN [trInfo |-> Nil, err |-> ErrRand]
    ELSE [trInfo |-> Ptr(HexEncode(EciesEncrypt(receiverEncryptionPubKey,
                                                trInfo, rand.k))),
          err |-> NoErr]

(***************************************************************************)
(* GetLnurlpResponse and GetPayRequest.  env is what the call reads from   *)
(* its surroundings: the clock (now) and the random source (rand).         *)
(***************************************************************************)
\* getSignedLnurlpComplianceResponse signing timestamp|nonce in the other order
getSignedLnurlpComplianceResponse_Swapped(query, privateKeyBytes, trStatus, isReceiverKYCd, env) ==
    LET timestamp     == env.now.sec
        nonce         == GenerateNonce(env.rand)
        payloadString == Join(<<query.ReceiverAddress, FormatInt(timestamp),
                                nonce.nonce.val>>, Str("|"))
        signed        == signPayload(payloadString, privateKeyBytes, env.rand)
    IN  IF nonce.err # NoErr THEN [compliance |-> Nil, err |-> nonce.err]
        ELSE IF signed.err # NoErr THEN [compliance |-> Nil, err |-> signed.err]
        ELSE [compliance |->
                [IsKYCd             |-> isReceiverKYCd,
                 Signature          |-> signed.signature.val,
                 Nonce              |-> nonce.nonce.val,
                 Timestamp          |-> timestamp,
                 TrStatus           |-> trStatus,
                 ReceiverIdentifier |-> query.ReceiverAddress],
              err |-> NoErr]

\* getSignedLnurlpComplianceResponse: [compliance, err]
getSignedLnurlpComplianceResponse(query, privateKeyBytes, trStatus, isReceiverKYCd, env) ==
    LET timestamp     == env.now.sec
        nonce         == GenerateNonce(env.rand)
        payloadString == Join(<<query.ReceiverAddress, nonce.nonce.val,
                                FormatInt(timestamp)>>, Str("|"))
        signed        == signPayload(payloadString, privateKeyBytes, env.rand)
    IN  IF nonce.err # NoErr THEN [compliance |-> Nil, err |-> nonce.err]
        ELSE IF signed.err # NoErr THEN [compliance |-> Nil, err |-> signed.err]
        ELSE [compliance |->
                [IsKYCd             |-> isReceiverKYCd,
                 Signature          |-> signed.signature.val,
                 Nonce              |-> nonce.nonce.val,
                 Timestamp          |-> timestamp,
                 TrStatus           |-> trStatus,
                 ReceiverIdentifier |-> query.ReceiverAddress],
              err |-> NoErr]

\* GetLnurlpResponse: [resp, err]
GetLnurlpResponse(query, privateKeyBytes, requiresTravelRuleInfo, callback, encodedMetadata, minSendableSats, maxSendableSats, payerDataOptions, currencyOptions, isReceiverKYCd, env) ==
    LET complianceResponse ==
            getSignedLnurlpComplianceResponse(query, privateKeyBytes,
                                              requiresTravelRuleInfo,
                                              isReceiverKYCd, env)
    IN  IF complianceResponse.err # NoErr
        THEN [resp |-> Nil, err |-> complianceResponse.err]
        ELSE [resp |-> [Tag               |-> Str("payRequest"),
                        Callback          |-> callback,
                        MinSendable       |-> minSendableSats,
                        MaxSendable       |-> maxSendableSats,
                        EncodedMetadata   |-> encodedMetadata,
                        Currencies        |-> currencyOptions,
                        RequiredPayerData |-> payerDataOptions,
                        Compliance        |-> complianceResponse.compliance],
              err |-> NoErr]

\* getSignedCompliancePayerData passing the travel-rule text on as it is
getSignedCompliancePayerData_Plain(receiverEncryptionPubKeyBytes, sendingVaspPrivateKeyBytes, payerIdentifier, trInfo, isPayerKYCd, payerUtxos, utxoCallback, env) ==
    LET timestamp     == env.now.sec
        nonce         == GenerateNonce(env.rand)
        payloadString == Join(<<payerIdentifier, nonce.nonce.val,
                                FormatInt(timestamp)>>, Str("|"))
        signed        == signPayload(payloadString, sendingVaspPrivateKeyBytes,
                                     env.rand)
    IN  IF nonce.err # NoErr
        THEN [data |-> Nil, err |-> nonce.err, encrypted |-> <<>>]
        ELSE IF signed.err # NoErr
        THEN [data |-> Nil, err |-> signed.err, encrypted |-> <<>>]
        ELSE [data |-> [TrInfo             |-> trInfo,
                        IsKYCd             |-> isPayerKYCd,
                        Utxos              |-> payerUtxos,
                        UtxoCallback       |-> utxoCallback,
                        SignatureNonce     |-> nonce.nonce.val,
                        SignatureTimestamp |-> timestamp,
                        Signature          |-> signed.signature.val],
              err |-> NoErr,
              encrypted |-> <<>>]

\* getSignedCompliancePayerData: [data, err, encrypted], encrypted being
\* the plaintexts handed to encryptTrInfo
getSignedCompliancePayerData(receiverEncryptionPubKeyBytes, sendingVaspPrivateKeyBytes, payerIdentifier, trInfo, isPayerKYCd, payerUtxos, utxoCallback, env) ==
    LET timestamp     == env.now.sec
        nonce         == GenerateNonce(env.rand)
        encryption    == IF trInfo # Nil
                         THEN encryptTrInfo(trInfo.val,
                                            receiverEncryptionPubKeyBytes, env.rand)
                         ELSE [trInfo |-> Nil, err |-> NoErr]
        encrypted     == IF trInfo # Nil THEN <<trInfo.val>> ELSE <<>>
        payloadString == Join(<<payerIdentifier, nonce.nonce.val,
                                FormatInt(timestamp)>>, Str("|"))
        signed        == signPayload(payloadString, sendingVaspPrivateKeyBytes,
                                     env.rand)
    IN  IF nonce.err # NoErr
        THEN [data |-> Nil, err |-> nonce.err, encrypted |-> <<>>]
        ELSE IF encryption.err # NoErr
        THEN [data |-> Nil, err |-> encryption.err, encrypted |-> encrypted]
        ELSE IF signed.err # NoErr
        THEN [data |-> Nil, err |-> signed.err, encrypted |-> encrypted]
        ELSE [data |-> [TrInfo             |-> encryption.trInfo,
                        IsKYCd             |-> isPayerKYCd,
                        Utxos              |-> payerUtxos,
                        UtxoCallback       |-> utxoCallback,
                        SignatureNonce     |-> nonce.nonce.val,
                        SignatureTimestamp |-> timestamp,
                        Signature          |-> signed.signature.val],
              err |-> NoErr,
              encrypted |-> encrypted]

\* GetPayRequest: [req, err, encrypted]
GetPayRequest(receiverEncryptionPubKey, sendingVaspPrivateKey, currencyCode, amount, payerIdentifier, payerName, payerEmail, trInfo, isPayerKYCd, payerUtxos, utxoCallback, env) ==
    LET complianceData ==
            getSignedCompliancePayerData(receiverEncryptionPubKey,
                                         sendingVaspPrivateKey, payerIdentifier,
                                         trInfo, isPayerKYCd, payerUtxos,
                                         utxoCallback, env)
    IN  IF complianceData.err # NoErr
        THEN [req |-> Nil, err |-> complianceData.err,
              encrypted |-> complianceData.encrypted]
        ELSE [req |-> [CurrencyCode |-> currencyCode,
                       Amount       |-> amount,
                       PayerData    |-> [Name       |-> payerName,
                                         Email      |-> payerEmail,
                                         Identifier |-> payerIdentifier,
                                         Compliance |-> complianceData.data]],
              err |-> NoErr,
              encrypted |-> complianceData.encrypted]

(***************************************************************************)
(* SpecBuild: GetLnurlpResponse and GetPayRequest applied to their         *)
(* arguments.                                                              *)
(***************************************************************************)
\* signing keys handed in: two that decode, one that does not
PrivateKeys ==
    {[id |-> "K1", valid |-> TRUE], [id |-> "K2", valid |-> TRUE],
     [id |-> "bad", valid |-> FALSE]}

\* encryption public keys handed in
EncryptionPubKeys == {[id |-> "E2", valid |-> TRUE], [id |-> "bad", valid |-> FALSE]}

\* the public key of a private key
PubKeyOf(privateKey) == [id |-> privateKey.id, valid |-> privateKey.valid]

\* what the clock and the random source may give a call
Envs ==
    [now : [sec : {Int64(0), Int64(1700000000)}, nsec : {0, 999}],
     rand : [ok : {TRUE}, n : {7, 4294}, k : {"r1", "r2"}]
            \cup [ok : {FALSE}, n : {0}, k : {"r0"}]]

\* addresses of the model
Addresses == {<<"$alice", "@", "vasp1.com">>, <<"$bob", "@", "vasp2.com">>}

\* travel-rule text handed to GetPayRequest: none, empty, some
TrInfos == {Nil, Ptr(Empty), Ptr(Str("alice, 1 main st"))}

PayRequestArgs ==
    [op : {"GetPayRequest"},
     receiverEncryptionPubKey : EncryptionPubKeys,
     sendingVaspPrivateKey : PrivateKeys,
     currencyCode : {Str("USD")},
     amount : {Amount(1000)},
     payerIdentifier : Addresses,
     payerName : {Nil},
     payerEmail : {Nil},
     trInfo : TrInfos,
     isPayerKYCd : {TRUE},
     payerUtxos : {Nil},
     utxoCallback : {Str("/api/uma/utxoCallback")},
     env : Envs]

LnurlpResponseArgs ==
    [op : {"GetLnurlpResponse"},
     query : [ReceiverAddress : Addresses \cup {Empty}],
     privateKeyBytes : PrivateKeys,
     requiresTravelRuleInfo : BOOLEAN,
     callback : {Str("https://vasp2.com/api/uma/payreq")},
     encodedMetadata : {Str("[[\"text/plain\",\"Pay\"]]")},
     minSendableSats : {Amount(1)},
     maxSendableSats : {Amount(250000)},
     payerDataOptions : {[NameRequired |-> FALSE]},
     currencyOptions : {<<Str("USD")>>},
     isReceiverKYCd : {TRUE},
     env : Envs]

InitBuild ==
    /\ cache = NoArgs
    /\ calls = NoArgs
    /\ lastDone = NoArgs
    /\ args \in PayRequestArgs \cup LnurlpResponseArgs
    /\ ret = Nil

\* the sending VASP builds the pay request
PayRequestStep ==
    /\ ret = Nil
    /\ args.op = "GetPayRequest"
    /\ ret' = GetPayRequest(args.receiverEncryptionPubKey, args.sendingVaspPrivateKey, args.currencyCode, args.amount, args.payerIdentifier, args.payerName, args.payerEmail, args.trInfo, args.isPayerKYCd, args.payerUtxos, args.utxoCallback, args.env)
    /\ UNCHANGED <<cache, calls, lastDone, args>>

\* the receiving VASP builds the lnurlp response
LnurlpResponseStep ==
    /\ ret = Nil
    /\ args.op = "GetLnurlpResponse"
    /\ ret' = GetLnurlpResponse(args.query, args.privateKeyBytes, args.requiresTravelRuleInfo, args.callback, args.encodedMetadata, args.minSendableSats, args.maxSendableSats, args.payerDataOptions, args.currencyOptions, args.isReceiverKYCd, args.env)
    /\ UNCHANGED <<cache, calls, lastDone, args>>

NextBuild == PayRequestStep \/ LnurlpResponseStep

SpecBuild == InitBuild /\ [][NextBuild]_vars

(***************************************************************************)
(* GetSignedLnurlpRequestUrl and VerifyUmaLnurlpQuerySignature.  The       *)
(* methods of LnurlpRequest they call, signablePayload and EncodeToUrl,    *)
(* are modelled from the specification: the payload is                     *)
(* receiverAddress|nonce|timestamp with the timestamp in Unix seconds, and *)
(* the URL is https://{domain}/.well-known/lnurlp/{user} with every field  *)
(* as a query parameter.                                                   *)
(***************************************************************************)
ErrInvalidReceiverAddress == "invalid receiver address"

\* time.Time.Unix()
Unix(t) == t.sec

\* LnurlpRequest.signablePayload()
signablePayload(q) ==
    Join(<<q.ReceiverAddress, q.Nonce, FormatInt(Unix(q.Timestamp))>>, Str("|"))

\* LnurlpRequest.EncodeToUrl(): [url, err]
EncodeToUrl(q) ==
    LET parts == Split(q.ReceiverAddress, "@")
    IN  IF Len(parts) # 2
        THEN [url |-> Nil, err |-> ErrInvalidReceiverAddress]
        ELSE [url |-> [Scheme |-> Str("https"),
                       Host   |-> parts[2],
                       Path   |-> Str("/") \o Str(".well-known") \o Str("/")
                                  \o Str("lnurlp") \o Str("/") \o parts[1],
                       Query  |-> [signature  |-> <<q.Signature>>,
                                   vaspDomain |-> <<q.VaspDomain>>,
                                   nonce      |-> <<q.Nonce>>,
                                   trStatus   |-> <<FormatBool(q.TrStatus)>>,
                                   timestamp  |-> <<FormatInt(Unix(q.Timestamp))>>]],
              err |-> NoErr]

\* GetSignedLnurlpRequestUrl: [url, err]
GetSignedLnurlpRequestUrl(signingPrivateKey, receiverAddress, senderVaspDomain, trStatus, env) ==
    LET nonce == GenerateNonce(env.rand)
        unsignedRequest == [ReceiverAddress |-> receiverAddress,
                            TrStatus        |-> trStatus,
                            VaspDomain      |-> senderVaspDomain,
                            Timestamp       |-> env.now,
                            Nonce           |-> nonce.nonce.val]
        signed == signPayload(signablePayload(unsignedRequest),
                              signingPrivateKey, env.rand)
    IN  IF nonce.err # NoErr THEN [url |-> Nil, err |-> nonce.err]
        ELSE IF signed.err # NoErr THEN [url |-> Nil, err |-> signed.err]
        ELSE EncodeToUrl([unsignedRequest EXCEPT !.Nonce = nonce.nonce.val]
                            @@ [Signature |-> signed.signature.val])

\* VerifyUmaLnurlpQuerySignature(query, otherVaspSigningPubKey): the error
VerifyUmaLnurlpQuerySignature(query, otherVaspSigningPubKey) ==
    verifySignature(Sha256(signablePayload(query)), query.Signature,
                    otherVaspSigningPubKey)

(***************************************************************************)
(* SpecRoundTrip: the sender builds a signed request URL, the receiver     *)
(* parses it and verifies its signature under the sender's public key.     *)
(***************************************************************************)
\* the user part of a receiver address: usual, empty, with a slash
Users == {Str("$alice"), Empty, <<"a", "/", "b">>}

\* the domain part of a receiver address
ReceiverDomains == {Str("vasp2.com"), <<"localhost:", "8080">>}

\* the sender's domain
SenderDomains == {Str("vasp1.com"), Empty}

RoundTripArgs ==
    [op : {"RoundTrip"},
     signingPrivateKey : PrivateKeys,
     receiverAddress : {u \o Str("@") \o d : u \in Users, d \in ReceiverDomains},
     senderVaspDomain : SenderDomains,
     trStatus : BOOLEAN,
     env : Envs]

InitRoundTrip ==
    /\ cache = NoArgs
    /\ calls = NoArgs
    /\ lastDone = NoArgs
    /\ args \in RoundTripArgs
    /\ ret = Nil

\* the sending VASP builds the signed URL
BuildUrlStep ==
    /\ ret = Nil
    /\ ret' = [built |-> GetSignedLnurlpRequestUrl(args.signingPrivateKey, args.receiverAddress, args.senderVaspDomain, args.trStatus, args.env),
               parsed |-> Nil, verified |-> Nil]
    /\ UNCHANGED <<cache, calls, lastDone, args>>

\* the receiving VASP parses the URL it was sent
ParseBuiltStep ==
    /\ ret # Nil
    /\ ret.built.url # Nil
    /\ ret.parsed = Nil
    /\ ret' = [ret EXCEPT !.parsed = ParseLnurlpRequest(ret.built.url)]
    /\ UNCHANGED <<cache, calls, lastDone, args>>

\* the receiving VASP verifies the parsed request under the public key of
\* the sender
VerifyStep ==
    /\ ret # Nil
    /\ ret.parsed # Nil
    /\ ret.parsed.req # Nil
    /\ ret.verified = Nil
    /\ ret' = [ret EXCEPT !.verified =
                 [err |-> VerifyUmaLnurlpQuerySignature(
                              ret.parsed.req, PubKeyOf(args.signingPrivateKey))]]
    /\ UNCHANGED <<cache, calls, lastDone, args>>

NextRoundTrip == BuildUrlStep \/ ParseBuiltStep \/ VerifyStep

SpecRoundTrip == InitRoundTrip /\ [][NextRoundTrip]_vars

(***************************************************************************)
(* Claims about ParseLnurlpRequest (under SpecParse).                      *)
(***************************************************************************)
\* the query parameters the parser requires
RequiredKeys == {"vaspDomain", "signature", "nonce", "timestamp"}

\* the request URL has been parsed
Parsed == args # NoArgs /\ ret # Nil

\* the key does not occur in the URL's query
Absent(key) == key \notin DOMAIN args.url.Query

\* the path has exactly 4 segments, the second .well-known, the third lnurlp
PathShape(path) ==
    LET parts == Split(path, "/")
    IN  Len(parts) = 4 /\ parts[2] = Str(".well-known") /\ parts[3] = Str("lnurlp")

\* s without its sign
Unsigned(s) == IF Len(s) > 0 /\ s[1] \in {"+", "-"} THEN Tail(s) ELSE s

\* s is a base-10 integer: an optional sign and at least one decimal digit
IsDecimalInteger(s) ==
    /\ Len(Unsigned(s)) > 0
    /\ \A i \in 1..Len(Unsigned(s)) : Unsigned(s)[i] \in Digits

\* the base-10 integer s is a signed 64-bit value
InInt64Range(s) ==
    MagLeq(StripZeros(Unsigned(s)),
           IF Len(s) > 0 /\ s[1] = "-" THEN MinInt64Mag ELSE MaxInt64Mag)

\* C2: whenever one of vaspDomain, signature, nonce, timestamp is absent from
\* the URL, parsing fails with the missing-parameter error and returns no
\* request, whatever the other parameters and the path are.
C2_MissingParameter ==
    (Parsed /\ \E k \in RequiredKeys : Absent(k))
        => (ret.err = ErrMissingParameter /\ ret.req = Nil)

\* C3 as stated: a request is returned only for a path of the 4-segment
\* shape, and when all four required parameters are present and the
\* timestamp is a base-10 integer, every other path fails with the
\* invalid-request-path error.
C3_InvalidRequestPath_Stated ==
    Parsed =>
        /\ ret.req # Nil => PathShape(args.url.Path)
        /\ ( /\ \A k \in RequiredKeys : ~Absent(k)
             /\ IsDecimalInteger(Get(args.url.Query, "timestamp"))
             /\ ~PathShape(args.url.Path) )
           => ret.err = ErrInvalidRequestPath

\* C3 as amended: a request is returned only for a path of the 4-segment
\* shape, and when all four required parameters are present with a non-empty
\* value and the timestamp is a base-10 integer in the signed 64-bit range,
\* every other path fails with the invalid-request-path error.
C3_InvalidRequestPath ==
    Parsed =>
        /\ ret.req # Nil => PathShape(args.url.Path)
        /\ ( /\ \A k \in RequiredKeys : Get(args.url.Query, k) # Empty
             /\ IsDecimalInteger(Get(args.url.Query, "timestamp"))
             /\ InInt64Range(Get(args.url.Query, "timestamp"))
             /\ ~PathShape(args.url.Path) )
           => (ret.err = ErrInvalidRequestPath /\ ret.req = Nil)

\* C3's case: a parsed URL with all parameters in order whose third segment
\* is not lnurlp, rejected for its path
C3_Witness ==
    /\ Parsed
    /\ \A k \in RequiredKeys : Get(args.url.Query, k) # Empty
    /\ args.url.Path = Join(<<Empty, Str(".well-known"), Str("alice"), Str("alice")>>, Str("/"))
    /\ ret.err = ErrInvalidRequestPath

\* C4: every request the parser returns has a receiverAddress user@domain
\* with user the non-empty last path segment and domain the non-empty host.
C4_ReceiverAddress ==
    (Parsed /\ ret.req # Nil) =>
        LET parts == Split(args.url.Path, "/")
            user  == parts[Len(parts)]
        IN  /\ user # Empty
            /\ args.url.Host # Empty
            /\ ret.req.ReceiverAddress = user \o Str("@") \o args.url.Host

(***************************************************************************)
(* Claims about FetchPublicKeyForVasp (under SpecFetch).                   *)
(***************************************************************************)
\* the call has returned or panicked
Done(c) == calls[c].pc = "done"

\* the call returned a key and a nil error
Succeeded(c) ==
    Done(c) /\ ~calls[c].result.panicked /\ calls[c].result.err = NoErr

\* the call found no entry in the cache
Missed(c) == calls[c].pc # "idle" /\ calls[c].publicKey = Nil

\* a successful call that found no entry made exactly one fetch, of its
\* domain's key URL, and exactly one put, under its domain
C1_FirstCall ==
    \A c \in Calls :
        (Succeeded(c) /\ Missed(c)) =>
            /\ calls[c].fetches = <<PubKeyUrl(calls[c].vaspDomain)>>
            /\ calls[c].puts = <<calls[c].vaspDomain>>

\* a call for a domain that starts when the last call to finish for that
\* domain succeeded returns that call's key in its first step, having made
\* no fetch and no put
C1_FollowingCall ==
    \A c1, c2 \in Calls :
        LET d == calls'[c2].vaspDomain
        IN  ( /\ calls[c2].pc = "idle"
              /\ calls'[c2].pc # "idle"
              /\ lastDone[d] = c1
              /\ Succeeded(c1) )
            => /\ calls'[c2].pc = "done"
               /\ calls'[c2].result = Returned(calls[c1].result.key, NoErr)
               /\ calls'[c2].fetches = <<>>
               /\ calls'[c2].puts = <<>>
               /\ cache' = cache

\* C1: starting without an entry for D, a first successful call for D makes
\* exactly one network fetch and exactly one cache put for D; the call that
\* immediately follows it makes no fetch and no put and returns the cached
\* entry unchanged.
C1_CacheBehaviour == []C1_FirstCall /\ [][C1_FollowingCall]_vars

\* C1's case: the first call fetched and cached a key, the second call, for
\* the same domain, returned that key from the cache
C1_Witness ==
    /\ Succeeded(1) /\ Missed(1)
    /\ Len(calls[1].fetches) = 1 /\ Len(calls[1].puts) = 1
    /\ Succeeded(2) /\ ~Missed(2)
    /\ calls[2].vaspDomain = calls[1].vaspDomain
    /\ calls[2].result.key = calls[1].result.key
    /\ calls[2].fetches = <<>>

\* the fetch of the call failed in one of the three ways: transport error,
\* a status other than 200, or a body that does not parse
FetchFailed(c) ==
    /\ Done(c) /\ Missed(c)
    /\ \/ calls[c].resp.transport
       \/ calls[c].resp.StatusCode # 200
       \/ calls[c].resp.readOk /\ calls[c].resp.body = Malformed

\* C8: on a cache miss, a fetch that fails by transport error, by a status
\* other than 200 or by an unparseable body makes the call return an error
\* and no key, with no cache put.
C8_FetchFailure ==
    \A c \in Calls :
        FetchFailed(c) =>
            /\ ~calls[c].result.panicked
            /\ calls[c].result.err # NoErr
            /\ calls[c].result.key = Nil
            /\ calls[c].puts = <<>>

\* C9: no call aborts the process; every failure is a returned error.
C9_NoPanic == \A c \in Calls : Done(c) => ~calls[c].result.panicked

(***************************************************************************)
(* Claims about GetPayReqResponse (under SpecPayReqResponse).              *)
(***************************************************************************)
\* the integer product x * y of two int64 values, as a 128-bit number,
\* which holds every such product
ExactProduct(x, y) ==
    Mul(SignExtend(x, 2 * Int64Bytes), SignExtend(y, 2 * Int64Bytes))

\* C6: the amountMsats handed to the invoice creator is the integer product
\* amount * conversionRate, also when that product exceeds the 64-bit
\* range, and the response's paymentInfo.multiplier is the conversionRate.
C6_AmountMsats ==
    ret # Nil =>
        /\ \A i \in 1..Len(ret.created) :
              SignExtend(ret.created[i].amountMsats, 2 * Int64Bytes)
                  = ExactProduct(args.query.Amount, args.conversionRate)
        /\ ret.resp # Nil => ret.resp.PaymentInfo.Multiplier = args.conversionRate

(***************************************************************************)
(* Claims about GetPayRequest and GetLnurlpResponse (under SpecBuild).     *)
(***************************************************************************)
\* GetPayRequest returned a PayRequest
BuiltPayRequest ==
    args # NoArgs /\ args.op = "GetPayRequest" /\ ret # Nil /\ ret.req # Nil

\* GetLnurlpResponse returned an LnurlpResponse
BuiltLnurlpResponse ==
    args # NoArgs /\ args.op = "GetLnurlpResponse" /\ ret # Nil /\ ret.resp # Nil

\* the hex ECIES ciphertext of text under the receiver's encryption key
\* that the call computes
CiphertextOf(text) ==
    HexEncode(EciesEncrypt(args.receiverEncryptionPubKey, text, args.env.rand.k))

\* C7 as stated: trInfo is present exactly when the sender supplied
\* non-empty travel-rule text; when present it is the hex ECIES ciphertext
\* under the receiver's key and never the plaintext; with no text or empty
\* text the field is omitted and nothing is encrypted.
C7_TrInfo_Stated ==
    BuiltPayRequest =>
        LET field    == ret.req.PayerData.Compliance.TrInfo
            supplied == args.trInfo # Nil /\ args.trInfo.val # Empty
        IN  /\ field # Nil <=> supplied
            /\ field # Nil => /\ field.val = CiphertextOf(args.trInfo.val)
                              /\ field.val # args.trInfo.val
            /\ ~supplied => field = Nil /\ ret.encrypted = <<>>

\* C7 as amended: trInfo is present exactly when the sender supplied
\* travel-rule text, empty text included; when present it is the hex ECIES
\* ciphertext of that text under the receiver's key and never the
\* plaintext; with no text the field is omitted and nothing is encrypted.
C7_TrInfo ==
    BuiltPayRequest =>
        LET field    == ret.req.PayerData.Compliance.TrInfo
            supplied == args.trInfo # Nil
        IN  /\ field # Nil <=> supplied
            /\ field # Nil => /\ field.val = CiphertextOf(args.trInfo.val)
                              /\ field.val # args.trInfo.val
                              /\ ret.encrypted = <<args.trInfo.val>>
            /\ ~supplied => field = Nil /\ ret.encrypted = <<>>

\* C7's case: a pay request built from non-empty travel-rule text, carrying
\* its ciphertext
C7_Witness ==
    /\ BuiltPayRequest
    /\ args.trInfo = Ptr(Str("alice, 1 main st"))
    /\ ret.req.PayerData.Compliance.TrInfo # Nil
    /\ ret.req.PayerData.Compliance.TrInfo.val # args.trInfo.val

\* the payload a verifier rebuilds from three fields of a message
SignedFields(identifier, nonce, timestamp) ==
    Join(<<identifier, nonce, FormatInt(timestamp)>>, Str("|"))

\* C10: the signature of every compliance block verifies, under the
\* signer's public key, over identifier|nonce|timestamp taken from the
\* message's own fields: receiverIdentifier, nonce, timestamp in an
\* LnurlpResponse; payerData.identifier, signatureNonce, signatureTimestamp
\* in a PayRequest.
C10_SignedFields ==
    /\ BuiltLnurlpResponse =>
          LET c == ret.resp.Compliance
          IN  verifySignature(
                  Sha256(SignedFields(c.ReceiverIdentifier, c.Nonce, c.Timestamp)),
                  c.Signature, PubKeyOf(args.privateKeyBytes)) = NoErr
    /\ BuiltPayRequest =>
          LET d == ret.req.PayerData
          IN  verifySignature(
                  Sha256(SignedFields(d.Identifier, d.Compliance.SignatureNonce,
                                      d.Compliance.SignatureTimestamp)),
                  d.Compliance.Signature,
                  PubKeyOf(args.sendingVaspPrivateKey)) = NoErr

\* C10's case: a signed LnurlpResponse for $bob@vasp2.com
C10_Witness ==
    /\ BuiltLnurlpResponse
    /\ ret.resp.Compliance.ReceiverIdentifier = <<"$bob", "@", "vasp2.com">>
    /\ ret.resp.Compliance.Nonce = NatDigits(4294)
    /\ ret.resp.Compliance.Timestamp = Int64(1700000000)

(***************************************************************************)
(* Claims about the request round trip (under SpecRoundTrip).              *)
(***************************************************************************)
\* the built URL was parsed, and the parse recovered the inputs
Recovered ==
    /\ ret.parsed.err = NoErr
    /\ ret.parsed.req # Nil
    /\ ret.parsed.req.ReceiverAddress = args.receiverAddress
    /\ ret.parsed.req.VaspDomain = args.senderVaspDomain
    /\ ret.parsed.req.TrStatus = args.trStatus

\* the URL was built, and whatever was done with it since went well: the
\* parse recovered the inputs, the signature verified
RoundTrips ==
    (ret # Nil /\ ret.built.url # Nil) =>
        /\ ret.parsed # Nil => Recovered
        /\ ret.verified # Nil => ret.verified.err = NoErr

NoRetryArgs ==
    {a \in PayReqResponseArgs :
        /\ a.query.Amount \in {Amount(1000), AmountPow2(62)}
        /\ a.conversionRate = Amount(34150)}

InitNoRetry ==
    /\ cache = [d \in Domains |-> Nil]
    /\ calls = [c \in Calls |-> IdleCall]
    /\ lastDone = [d \in Domains |-> 0]
    /\ args \in NoRetryArgs
    /\ ret = Nil

NextNoRetry ==
    \/ NextFetch
    \/ NextPayReqResponse

SpecNoRetry == InitNoRetry /\ [][NextNoRetry]_vars

(***************************************************************************)
(* Claims about retries (under SpecNoRetry).                               *)
(***************************************************************************)
\* what the invoice creator handed in returns for the i-th creation asked
CreatorResult(i) ==
    CreateLnurlInvoice(args.invoiceCreator, ret.created[i].nodeId,
                       ret.created[i].amountMsats, ret.created[i].metadata,
                       ret.created[i].expirySecs)

\* C11: no retries: each FetchPublicKeyForVasp call issues at most one
\* network fetch, each GetPayReqResponse call invokes the invoice creator at
\* most once, and when the invoice creator returns an error
\* GetPayReqResponse returns that same error and no response.
C11_NoRetries ==
    /\ \A c \in Calls : Len(calls[c].fetches) <= 1
    /\ ret # Nil =>
          /\ Len(ret.created) <= 1
          /\ \A i \in 1..Len(ret.created) :
                CreatorResult(i).err # NoErr =>
                    /\ ret.err = CreatorResult(i).err
                    /\ ret.resp = Nil

\* C11's case: a call whose one fetch failed has returned the error, and
\* the invoice creator, asked once, failed and GetPayReqResponse returned
\* its error
C11_Witness ==
    /\ \E c \in Calls :
          /\ Done(c) /\ Missed(c)
          /\ calls[c].resp = TransportError
          /\ Len(calls[c].fetches) = 1
          /\ calls[c].result = Returned(Nil, ErrTransport)
    /\ ret # Nil
    /\ Len(ret.created) = 1
    /\ args.invoiceCreator.fails
    /\ ret.err = ErrInvoiceCreation
    /\ ret.resp = Nil

(***************************************************************************)
(* Claims about concurrent calls (under SpecFetch, whose calls interleave  *)
(* freely: a call's cache lookup and its fetch-and-put are separate steps, *)
(* and any steps of other calls may fall between them).                    *)
(***************************************************************************)
\* the call fetched this key from its own domain: http.Get of the domain's
\* key URL answered 200 with the key as its body
FetchedFrom(c, d, key) ==
    /\ calls[c].vaspDomain = d
    /\ calls[c].fetches = <<PubKeyUrl(d)>>
    /\ calls[c].resp # Nil
    /\ ~calls[c].resp.transport
    /\ calls[c].resp.StatusCode = 200
    /\ calls[c].resp.readOk
    /\ calls[c].resp.body = key
    /\ key \in {PubKeyResponse(d, v) : v \in 1..NumKeyVersions}

\* every successful call returns what the cache held for its domain when it
\* asked, or what it fetched from its domain
ReturnsCachedOrFetched ==
    \A c \in Calls :
        Succeeded(c) =>
            \/ ~Missed(c) /\ calls[c].result.key = calls[c].publicKey
            \/ Missed(c) /\ FetchedFrom(c, calls[c].vaspDomain, calls[c].result.key)

\* an entry of the cache is a key some call fetched from the entry's domain
CacheHoldsFetched ==
    \A d \in Domains :
        cache[d] # Nil => \E c \in Calls : FetchedFrom(c, d, cache[d])

\* a call makes at most one fetch, and none unless it missed, so the
\* fetches for a domain are at most the calls for it
FetchesBoundedByCalls ==
    \A c \in Calls :
        /\ Len(calls[c].fetches) <= 1
        /\ calls[c].fetches # <<>> => Missed(c)

\* a call for a domain that starts once some call for that domain has
\* completed successfully returns in its first step, without a fetch
NoFetchAfterSuccess ==
    \A c1, c2 \in Calls :
        ( /\ calls[c2].pc = "idle"
          /\ calls'[c2].pc # "idle"
          /\ Succeeded(c1)
          /\ calls[c1].vaspDomain = calls'[c2].vaspDomain )
        => /\ calls'[c2].pc = "done"
           /\ calls'[c2].fetches = <<>>
           /\ calls'[c2].result.err = NoErr
           /\ \E c \in Calls :
                 FetchedFrom(c, calls'[c2].vaspDomain, calls'[c2].result.key)

\* a call that has returned makes no fetch any more
NoFetchOnceDone ==
    \A c \in Calls : Done(c) => calls'[c].fetches = calls[c].fetches

\* C12: under every interleaving of concurrent FetchPublicKeyForVasp calls
\* sharing one cache with atomic get and put, every successful call for D
\* returns a key already cached for D or fetched from D, the cache only
\* ever maps D to a key fetched from D, and once a call for D has completed
\* successfully every call for D that starts afterwards makes no fetch;
\* the fetches for D are bounded by the calls for D (calls that overlap a
\* miss may each fetch).
C12_ConcurrentCalls ==
    /\ [](ReturnsCachedOrFetched /\ CacheHoldsFetched /\ FetchesBoundedByCalls)
    /\ [][NoFetchAfterSuccess /\ NoFetchOnceDone]_vars

\* C12's case: two calls for one domain overlapped a miss, each fetched,
\* they were given different keys, both succeeded, and the cache holds the
\* key of the one that put last
C12_Witness ==
    /\ calls[1].vaspDomain = calls[2].vaspDomain
    /\ Succeeded(1) /\ Missed(1)
    /\ Succeeded(2) /\ Missed(2)
    /\ Len(calls[1].fetches) = 1 /\ Len(calls[2].fetches) = 1
    /\ calls[1].result.key # calls[2].result.key
    /\ lastDone[calls[1].vaspDomain] = 1
    /\ cache[calls[1].vaspDomain] = calls[1].result.key

=============================================================================
